---- MODULE Spec2Model ----
(***************************************************************************)
(* thesistools.py: formatSI (SI prefix formatter), createAxes (grid of     *)
(* sub-axes) and the Curve annotation helper.                              *)
(*                                                                         *)
(* Numbers.  A nonzero float is held as a decimal in scientific form,      *)
(*     sign * d1.d2...dn * 10^exp      (digits = d1d2...dn, d1 # 0),        *)
(* which is the form '{:.{p}e}' prints and float() reads back.  The two    *)
(* decimal roundings of formatSI ('.{p}e' and '.{p}g') are correctly       *)
(* rounded from the binary64 value; when the decimal digits sit exactly    *)
(* half way, the direction depends on the binary64 neighbour of the        *)
(* decimal (or on half-even when the decimal is exact), which the decimal  *)
(* form does not determine: halfUpE and halfUpG carry that direction.      *)
(***************************************************************************)
EXTENDS Integers, Sequences, FiniteSets, TLC

VARIABLES
  number,      \* formatSI: the argument `number` (Zero or a decimal record)
  precision,   \* formatSI: the argument `precision`
  s,           \* formatSI: the argument `s` (format spec)
  halfUpE,     \* direction of an exact-half case in '{number:.{precision}e}'
  halfUpG,     \* direction of an exact-half case in '{...:{s}.{precision}g}'
  pc,          \* "start" -> "called" -> "both"
  out,         \* outcome of formatSI(number, precision, s)
  outNeg,      \* outcome of formatSI(-number, precision, s)
  nAxes,       \* createAxes: the argument `nAxes`
  colWrap,     \* createAxes: the argument `colWrap`
  grid,        \* createAxes: NotCalled, or what the call returned as axs
  ax,          \* Curve.ax: the matplotlib Axes the curve draws on
  func,        \* Curve.func: index into Funcs
  last         \* the last Curve call: its arguments, locals and outcome

siVars    == <<number, precision, s, halfUpE, halfUpG, pc, out, outNeg>>
gridVars  == <<nAxes, colWrap, grid>>
curveVars == <<ax, func, last>>
vars      == <<siVars, gridVars, curveVars>>

----------------------------------------------------------------------------
(* Bounds of the input space *)

MaxSmall == 20        \* digit strings 1..MaxSmall
Window == 6           \* digit strings 10^d - 1 .. 10^d - Window, d = 3..5
ExpSpan == 20         \* decimal exponents -ExpSpan .. ExpSpan
MaxPrecision == 3     \* precision in 1..MaxPrecision

(* Program constants *)

DefaultPrecision == 3 \* def formatSI(number, precision=3, s='')
MaxExp10 == 308       \* binary64: largest decimal exponent float() can hold
MaxLead == 17976      \* binary64: first five digits of the largest float

----------------------------------------------------------------------------
(* Decimal helpers *)

RECURSIVE Pow10(_)
Pow10(n) == IF n = 0 THEN 1 ELSE 10 * Pow10(n - 1)

RECURSIVE NumDigits(_)
NumDigits(m) == IF m < 10 THEN 1 ELSE 1 + NumDigits(m \div 10)

RECURSIVE StripZeros(_)
StripZeros(m) == IF m % 10 = 0 /\ m >= 10 THEN StripZeros(m \div 10) ELSE m

Abs(i) == IF i < 0 THEN -i ELSE i

Zero == [cls |-> "zero"]
Inf(sg) == [cls |-> "inf", sign |-> sg]
Dec(sg, d, e) == [cls |-> "finite", sign |-> sg, digits |-> d, exp |-> e]

Negate(x) == IF x.cls = "zero" THEN x ELSE [x EXCEPT !.sign = -x.sign]

\* The first five significant digits of a digit string (zero padded).
Lead5(d) ==
  LET nd == NumDigits(d)
  IN  IF nd <= 5 THEN d * Pow10(5 - nd) ELSE d \div Pow10(nd - 5)

\* Whether a decimal exceeds the largest binary64 value (float() gives inf).
Overflows(d, e) == e > MaxExp10 \/ (e = MaxExp10 /\ Lead5(d) > MaxLead)

\* Round the digit string d to n significant digits; up decides an exact half.
\* Returns <<digits, carry>>: carry = 1 when 99..9 rounded up to 10..0.
RoundDigits(d, n, up) ==
  LET nd == NumDigits(d)
  IN  IF nd <= n THEN <<d * Pow10(n - nd), 0>>
      ELSE LET r    == nd - n
               q    == d \div Pow10(r)
               rem  == d % Pow10(r)
               half == 5 * Pow10(r - 1)
               q1   == IF rem > half \/ (rem = half /\ up) THEN q + 1 ELSE q
           IN  IF q1 = Pow10(n) THEN <<Pow10(n - 1), 1>> ELSE <<q1, 0>>

----------------------------------------------------------------------------
(* formatSI *)

\* f'{x:.{p}e}': x in scientific form with p digits after the point, that is
\* p + 1 significant digits.
FormatE(x, p, up) ==
  LET r == RoundDigits(x.digits, p + 1, up)
  IN  Dec(x.sign, r[1], x.exp + r[2])

\* float(text): a decimal beyond the binary64 range reads as inf.
ParseFloat(x) == IF Overflows(x.digits, x.exp) THEN Inf(x.sign) ELSE x

\* Mutant of baseThousand: int() of the quotient, which truncates towards zero.
baseThousand_Truncated(x) ==
  IF x.exp >= 0 THEN x.exp \div 3 ELSE -((-x.exp) \div 3)

\* np.floor(np.log(abs(number))/np.log(1e3)) of a finite nonzero number:
\* 10^exp <= |number| < 10^(exp+1), so the floor is floor(exp/3).
baseThousand(x) == x.exp \div 3

\* Mutant of prefixKey: the format '1d', which writes no plus sign.
prefixKey_NoPlus(t) == <<IF t < 0 THEN "-" ELSE "", Abs(t)>>

\* f'{int(baseThousand):+1d}': a sign character, then the digits.
prefixKey(t) == <<IF t < 0 THEN "-" ELSE "+", Abs(t)>>

\* Mutant of prefixDict: the table with the entries for -5 and +5 kept.
prefixDict_Wider ==
  (<<"-", 5>> :> "f") @@
  (<<"-", 4>> :> "p") @@ (<<"-", 3>> :> "n") @@ (<<"-", 2>> :> "μ") @@
  (<<"-", 1>> :> "m") @@ (<<"+", 0>> :> "")  @@ (<<"+", 1>> :> "k") @@
  (<<"+", 2>> :> "M") @@ (<<"+", 3>> :> "G") @@ (<<"+", 4>> :> "T") @@
  (<<"+", 5>> :> "P")

\* Lines 115-120
prefixDict ==
  (<<"-", 4>> :> "p") @@ (<<"-", 3>> :> "n") @@ (<<"-", 2>> :> "μ") @@
  (<<"-", 1>> :> "m") @@ (<<"+", 0>> :> "")  @@ (<<"+", 1>> :> "k") @@
  (<<"+", 2>> :> "M") @@ (<<"+", 3>> :> "G") @@ (<<"+", 4>> :> "T")

\* Mutant of shortenedDigits: abs(number) is scaled, the sign is lost.
shortenedDigits_Abs(x, t) == Dec(1, x.digits, x.exp - 3 * t)

\* number/(1e3**baseThousand)
shortenedDigits(x, t) == Dec(x.sign, x.digits, x.exp - 3 * t)

\* f'{x:{sp}.{p}g}': p significant digits, trailing zeros removed, scientific
\* notation when the exponent is below -4 or not below p.  sp (fill, align,
\* width) is carried with the text.
FormatG(x, p, sp, up) ==
  IF x.cls = "zero"
    THEN [sign |-> 1, digits |-> 0, exp |-> 0, sci |-> FALSE, spec |-> sp]
    ELSE LET r == RoundDigits(x.digits, p, up)
             e == x.exp + r[2]
         IN  [sign |-> x.sign, digits |-> StripZeros(r[1]), exp |-> e,
              sci |-> (e < -4 \/ e >= p), spec |-> sp]

\* String concatenation of the rendered number, one space and the symbol.
Text(num, sym) == <<num, " ">> \o (IF sym = "" THEN <<>> ELSE <<sym>>)

\* Mutant of returnZero: the format string without its trailing space.
returnZero_NoSpace(p, sp, upG) ==
  [path |-> "zero", text |-> <<FormatG(Zero, p, sp, upG)>>]

\* Line 103: if number == 0: return f'{0:{s}.{precision}g} '
returnZero(p, sp, upG) ==
  [path |-> "zero", text |-> Text(FormatG(Zero, p, sp, upG), "")]

\* Line 105: number = float(f'{number:.{precision}e}')
roundFirst(x, p, upE) == ParseFloat(FormatE(x, p, upE))

\* Lines 122-125: the prefixed return when the key is in the table, else the
\* rounded number itself.
returnLookup(rounded, t, key, scaled, p, sp, upG) ==
  IF key \in DOMAIN prefixDict
    THEN [path |-> "prefixed", rounded |-> rounded, tier |-> t,
          scaled |-> scaled,
          text |-> Text(FormatG(scaled, p, sp, upG), prefixDict[key])]
    ELSE [path |-> "unscaled", rounded |-> rounded, tier |-> t,
          scaled |-> scaled,
          text |-> Text(FormatG(rounded, p, sp, upG), "")]

\* formatSI(number, precision, s).  path names the return (or raise) taken;
\* rounded, tier and scaled are the locals number (after line 105),
\* int(baseThousand) and shortenedDigits.  For an infinite number
\* np.log and np.floor give inf, and int(inf) raises OverflowError.
formatSI(x, p, sp, upE, upG) ==
  IF x.cls = "zero" THEN returnZero(p, sp, upG)
  ELSE LET rounded == roundFirst(x, p, upE)
       IN  IF rounded.cls = "inf"
             THEN [path |-> "OverflowError", text |-> <<>>, rounded |-> rounded]
             ELSE LET t == baseThousand(rounded)
                  IN  returnLookup(rounded, t, prefixKey(t),
                                   shortenedDigits(rounded, t), p, sp, upG)

----------------------------------------------------------------------------
(* The inputs formatSI is applied to *)

Digits ==
  (1 .. MaxSmall)
    \cup { Pow10(d) - j : d \in 3 .. 5, j \in 1 .. Window }
    \cup { 125, 1234, 1235, 12345 }
    \cup { MaxLead - j : j \in 0 .. 1 }

Exps == (-ExpSpan .. ExpSpan) \cup { MaxExp10 - 1, MaxExp10 }

Signs == { 1, -1 }

FormatSpecs == { "", ">8" }

\* Finite nonzero floats, and zero.
Numbers ==
  { Dec(sg, d, e) : sg \in Signs, d \in Digits, e \in Exps } \cup { Zero }

IsFloat(x) == x.cls = "zero" \/ ~Overflows(x.digits, x.exp)

NotCalled == [path |-> "not called"]

InitSI ==
  /\ number \in { x \in Numbers : IsFloat(x) }
  /\ precision \in 1 .. MaxPrecision
  /\ s \in FormatSpecs
  /\ halfUpE \in BOOLEAN
  /\ halfUpG \in BOOLEAN
  /\ pc = "start"
  /\ out = NotCalled
  /\ outNeg = NotCalled

IdleSI ==
  /\ number = Zero
  /\ precision = DefaultPrecision
  /\ s = ""
  /\ halfUpE = FALSE
  /\ halfUpG = FALSE
  /\ pc = "idle"
  /\ out = NotCalled
  /\ outNeg = NotCalled

\* formatSI(number, precision, s)
CallFormatSI ==
  /\ pc = "start"
  /\ out' = formatSI(number, precision, s, halfUpE, halfUpG)
  /\ pc' = "called"
  /\ UNCHANGED <<number, precision, s, halfUpE, halfUpG, outNeg>>
  /\ UNCHANGED <<gridVars, curveVars>>

\* formatSI(-number, precision, s)
CallFormatSINegated ==
  /\ pc = "called"
  /\ outNeg' = formatSI(Negate(number), precision, s, halfUpE, halfUpG)
  /\ pc' = "both"
  /\ UNCHANGED <<number, precision, s, halfUpE, halfUpG, out>>
  /\ UNCHANGED <<gridVars, curveVars>>

----------------------------------------------------------------------------
(* createAxes *)

MaxAxes == 12         \* nAxes in 1..MaxAxes
MaxColWrap == 6       \* colWrap in 1..MaxColWrap

Min(a, b) == IF a <= b THEN a ELSE b

\* np.ceil(a/b) of positive integers
Ceil(a, b) == IF a % b = 0 THEN a \div b ELSE a \div b + 1

NewAxes(i) == [id |-> i, on |-> TRUE]

\* plt.subplots(ncols=, nrows=) with the default squeeze=True: one Axes for a
\* 1 x 1 grid, a 1-d array for a single row or column, else a 2-d array of
\* rows.  Axes are numbered in row-major order.
subplots(ncols, nrows) ==
  IF ncols = 1 /\ nrows = 1
    THEN [shape |-> "Axes", elems |-> <<NewAxes(0)>>]
  ELSE IF ncols = 1 \/ nrows = 1
    THEN [shape |-> "1d", elems |-> [i \in 1 .. ncols * nrows |-> NewAxes(i - 1)]]
  ELSE [shape |-> "2d",
        elems |-> [r \in 1 .. nrows |->
                     [c \in 1 .. ncols |-> NewAxes((r - 1) * ncols + c - 1)]]]

RECURSIVE Concat(_)
Concat(rows) == IF rows = <<>> THEN <<>> ELSE Head(rows) \o Concat(Tail(rows))

\* axs.flatten(): the rows of a 2-d array one after the other
flatten(a) ==
  IF a.shape = "2d" THEN [shape |-> "1d", elems |-> Concat(a.elems)] ELSE a

\* axs[-(blankAxes+1)].axis('off') for blankAxes in range(n)
RECURSIVE blankLast(_, _)
blankLast(a, n) ==
  IF n = 0 THEN a
  ELSE LET b == blankLast(a, n - 1)
           i == Len(b.elems) - (n - 1)
       IN  [b EXCEPT !.elems[i].on = FALSE]

nCols(n, w) == Min(n, w)
nRows(n, w) == Ceil(n, nCols(n, w))
nAxesBlank(n, w) == nCols(n, w) * nRows(n, w) - n

\* createAxes(nAxes, colWrap): the axs it returns
createAxes(n, w) ==
  LET axs0 == subplots(nCols(n, w), nRows(n, w))
      axs1 == IF nRows(n, w) > 1 THEN flatten(axs0) ELSE axs0
  IN  blankLast(axs1, nAxesBlank(n, w))

GridNotCalled == [shape |-> "not called", elems |-> <<>>]

InitGrid ==
  /\ nAxes \in 1 .. MaxAxes
  /\ colWrap \in 1 .. MaxColWrap
  /\ grid = GridNotCalled

IdleGrid ==
  /\ nAxes = 1
  /\ colWrap = 1
  /\ grid = GridNotCalled

\* fig, axs = createAxes(nAxes, colWrap)
CallCreateAxes ==
  /\ grid = GridNotCalled
  /\ grid' = createAxes(nAxes, colWrap)
  /\ UNCHANGED <<nAxes, colWrap>>
  /\ UNCHANGED <<siVars, curveVars>>

----------------------------------------------------------------------------
(* Curve *)

MaxCoord == 1         \* x arguments in -MaxCoord..MaxCoord
MaxCalls == 2         \* Curve calls made on one axis
PosDen == 2           \* pos is PosNum/PosDen (the default 0.5 is 1/2)

Coord == -MaxCoord .. MaxCoord

\* The functions a Curve is built on
Funcs ==
  { [x \in Coord |-> x], [x \in Coord |-> x * x], [x \in Coord |-> 1 - 2 * x] }

LabelNone == "<None>"
Labels == { LabelNone, "A" }

PosNone == [isNone |-> TRUE, num |-> 0]
PosHalf == [isNone |-> FALSE, num |-> 1]
Positions == { PosNone, PosHalf }

\* A new Axes: limits (0, 1), autoscaling on, nothing drawn.
FreshAxes ==
  [xlim |-> <<0, 1>>, ylim |-> <<0, 1>>, autoscalex |-> TRUE,
   autoscaley |-> TRUE, lines |-> {}, texts |-> {}]

\* The range autoscaling gives an axis whose data are vs: their hull, a
\* single value widened to a proper range.
DataLim(vs, old) ==
  IF vs = {} THEN old
  ELSE LET lo == CHOOSE v \in vs : \A w \in vs : v <= w
           hi == CHOOSE v \in vs : \A w \in vs : v >= w
       IN  IF lo = hi THEN <<lo - 1, hi + 1>> ELSE <<lo, hi>>

\* autoscale_view(): each axis still autoscaling takes the range of the data.
autoscale_view(a) ==
  LET xs == { seg[i][1] : seg \in a.lines, i \in 1 .. 2 }
      ys == { seg[i][2] : seg \in a.lines, i \in 1 .. 2 }
  IN  [a EXCEPT !.xlim = IF a.autoscalex THEN DataLim(xs, @) ELSE @,
                !.ylim = IF a.autoscaley THEN DataLim(ys, @) ELSE @]

\* ax.plot / ax.vlines / ax.hlines of one segment: the artist is added and
\* the view is autoscaled.
AddSegment(a, p0, p1) ==
  autoscale_view([a EXCEPT !.lines = @ \cup { <<p0, p1>> }])

\* Mutant of set_ylim: the range is left as the drawing made it.
set_ylim_Skipped(a, bottom, top) == a

\* ax.set_ylim(bottom, top): the range is set and y autoscaling is turned off
\* (identical limits are widened).
set_ylim(a, bottom, top) ==
  [a EXCEPT !.ylim = IF bottom = top THEN <<bottom - 1, top + 1>>
                     ELSE <<bottom, top>>,
            !.autoscaley = FALSE]

\* ax.set_xlim(left, right)
set_xlim(a, left, right) ==
  [a EXCEPT !.xlim = IF left = right THEN <<left - 1, right + 1>>
                     ELSE <<left, right>>,
            !.autoscalex = FALSE]

\* ax.annotate(label, xy, ...); xy is given in units of 1/PosDen
annotate(a, label, xy) == [a EXCEPT !.texts = @ \cup { [label |-> label, xy |-> xy] }]

\* Curve.plot_line(min_, max_, pos, label): <<ax after the call, raised>>.
\* `Return` (lines 156 and 160) is a name no scope defines.
plot_line(a, f, min_, max_, pos, label) ==
  LET y_min == f[min_]
      y_max == f[max_]
      a1    == AddSegment(a, <<min_, y_min>>, <<max_, y_max>>)
  IN  IF pos.isNone THEN <<a1, "NameError">>
      ELSE LET y_label == (y_max - y_min) * pos.num + y_min * PosDen
               x_label == (max_ - min_) * pos.num + min_ * PosDen
           IN  IF label = LabelNone THEN <<a1, "NameError">>
               ELSE <<annotate(a1, label, <<x_label, y_label>>), "none">>

\* Curve.draw_connecting_hline(x, label, pos):
\* <<ax after the call, raised, ax after vlines>>.
draw_connecting_hline(a, f, x, label, pos) ==
  LET min_y   == a.ylim[1]
      max_y   == a.ylim[2]
      curve_y == f[x]
      a1      == AddSegment(a, <<x, min_y>>, <<x, curve_y>>)
      a2      == set_ylim(a1, min_y, max_y)
  IN  IF label = LabelNone THEN <<a2, "none", a1>>
      ELSE IF pos.isNone THEN <<a2, "TypeError", a1>>
      ELSE LET label_y == (curve_y - min_y) * pos.num + min_y * PosDen
           IN  <<annotate(a2, label, <<x * PosDen, label_y>>), "none", a1>>

\* Curve.draw_connecting_vline(x, label, pos):
\* <<ax after the call, raised, ax after hlines>>.
draw_connecting_vline(a, f, x, label, pos) ==
  LET min_x   == a.xlim[1]
      max_x   == a.xlim[2]
      curve_y == f[x]
      a1      == AddSegment(a, <<min_x, curve_y>>, <<x, curve_y>>)
      a2      == set_xlim(a1, min_x, max_x)
  IN  <<a2, "none", a1>>

NoCall ==
  [n |-> 0, call |-> "none", raised |-> "none", label |-> LabelNone,
   pos |-> PosHalf, before |-> FreshAxes, drawn |-> FreshAxes]

Called(name, res, label, pos, drawn) ==
  [n |-> last.n + 1, call |-> name, raised |-> res[2], label |-> label,
   pos |-> pos, before |-> ax, drawn |-> drawn]

InitCurve ==
  /\ ax = FreshAxes
  /\ func \in Funcs
  /\ last = NoCall

IdleCurve ==
  /\ ax = FreshAxes
  /\ func = [x \in Coord |-> x]
  /\ last = NoCall

CallPlotLine ==
  /\ last.n < MaxCalls
  /\ \E min_ \in Coord, max_ \in Coord, pos \in Positions, label \in Labels :
       LET res == plot_line(ax, func, min_, max_, pos, label)
       IN  /\ ax' = res[1]
           /\ last' = Called("plot_line", res, label, pos, res[1])
  /\ UNCHANGED <<func, siVars, gridVars>>

CallDrawConnectingHline ==
  /\ last.n < MaxCalls
  /\ \E x \in Coord, pos \in Positions, label \in Labels :
       LET res == draw_connecting_hline(ax, func, x, label, pos)
       IN  /\ ax' = res[1]
           /\ last' = Called("draw_connecting_hline", res, label, pos, res[3])
  /\ UNCHANGED <<func, siVars, gridVars>>

CallDrawConnectingVline ==
  /\ last.n < MaxCalls
  /\ \E x \in Coord, pos \in Positions, label \in Labels :
       LET res == draw_connecting_vline(ax, func, x, label, pos)
       IN  /\ ax' = res[1]
           /\ last' = Called("draw_connecting_vline", res, label, pos, res[3])
  /\ UNCHANGED <<func, siVars, gridVars>>

----------------------------------------------------------------------------
(* Specifications *)

Init == InitSI /\ IdleGrid /\ IdleCurve
Next == CallFormatSI \/ CallFormatSINegated
Spec == Init /\ [][Next]_vars

InitAxes == IdleSI /\ InitGrid /\ IdleCurve
NextAxes == CallCreateAxes
SpecAxes == InitAxes /\ [][NextAxes]_vars

InitCurveSpec == IdleSI /\ IdleGrid /\ InitCurve
NextCurve == CallPlotLine \/ CallDrawConnectingHline \/ CallDrawConnectingVline
SpecCurve == InitCurveSpec /\ [][NextCurve]_vars

----------------------------------------------------------------------------
(* Claims about formatSI (specification Spec) *)

Called1 == pc \in { "called", "both" }
NonZero == number.cls = "finite"

\* '{number:.{precision}e}' of the argument, before float() reads it back
RoundedArg == FormatE(number, precision, halfUpE)

\* The table of the specification, tier by tier
TierSymbol(t) ==
  CASE t = -4 -> "p" [] t = -3 -> "n" [] t = -2 -> "μ" [] t = -1 -> "m"
    [] t = 0 -> ""   [] t = 1 -> "k"  [] t = 2 -> "M"  [] t = 3 -> "G"
    [] t = 4 -> "T"

\* The rendered mantissa 1.00 (printed by 'g' without its trailing zeros)
One(sg, sp) == [sign |-> sg, digits |-> 1, exp |-> 0, sci |-> FALSE, spec |-> sp]

\* The number the returned text shows
Rendered(o) == IF o.path = "prefixed" THEN o.scaled ELSE o.rounded

\* number, rounded to precision significant digits, is 1000^t (whichever way
\* an exact half goes)
RoundsToPowerOfThousand(t) ==
  \A up \in BOOLEAN :
    LET r == RoundDigits(number.digits, precision, up)
    IN  r[1] = Pow10(precision - 1) /\ number.exp + r[2] = 3 * t

\* C1: a nonzero number that rounds, at precision significant digits, to
\* 1000^t with t in -4..4 is classified in tier t, with mantissa 1.00 and the
\* prefix of tier t (never 1000 under the prefix of tier t - 1).
C1_TierPromotion ==
  (Called1 /\ NonZero) =>
    \A t \in -4 .. 4 :
      RoundsToPowerOfThousand(t) =>
        /\ out.path = "prefixed"
        /\ out.tier = t
        /\ out.text = Text(One(number.sign, s), TierSymbol(t))

C4_PowersOfThousand ==
  (Called1 /\ NonZero) =>
    /\ \A t \in -4 .. 4 :
         (/\ number.sign = 1 /\ StripZeros(number.digits) = 1
          /\ number.exp = 3 * t
          /\ precision = DefaultPrecision /\ s = "") =>
           out.text = Text(One(1, ""), TierSymbol(t))
    /\ out.path = "prefixed" =>
         \E t \in -4 .. 4 :
           /\ 3 * t <= out.rounded.exp /\ out.rounded.exp < 3 * t + 3
           /\ out.tier = t
           /\ out.text = Text(out.text[1], TierSymbol(t))

C4_Witness ==
  /\ Called1 /\ number = Dec(1, 1, -6) /\ precision = DefaultPrecision
  /\ s = "" /\ out.text = <<One(1, ""), " ", "μ">>

\* C5: a nonzero finite number whose base-1000 exponent (of the value rounded
\* to precision + 1 digits) is outside -4..4 raises no error and comes back
\* as the rounded number, not rescaled, then one space and no prefix.
C5_OutOfRangeNeverRaises ==
  (Called1 /\ NonZero /\ (RoundedArg.exp < -12 \/ RoundedArg.exp >= 15)) =>
    /\ out.path = "unscaled"
    /\ out.text = <<FormatG(RoundedArg, precision, s, halfUpG), " ">>

\* C6: formatSI(0, p, s) is the zero value, one trailing space and no prefix
\* symbol, and no exponent is computed.
C6_Zero ==
  (Called1 /\ number = Zero) =>
    /\ out.path = "zero"
    /\ out.text = <<[sign |-> 1, digits |-> 0, exp |-> 0, sci |-> FALSE,
                     spec |-> s], " ">>
    /\ DOMAIN out = { "path", "text" }

C6_Witness ==
  /\ Called1 /\ number = Zero /\ precision = 2 /\ s = ">8"
  /\ Len(out.text) = 2

\* C7: with format spec '', formatSI(-x, p, '') and formatSI(x, p, '') take
\* the same return (or raise alike), select the same tier and the same
\* prefix, and their mantissas are equal in magnitude and opposite in sign.
C7_NegativeSymmetry ==
  (pc = "both" /\ NonZero /\ s = "") =>
    /\ outNeg.path = out.path
    /\ out.path \in { "prefixed", "unscaled" } =>
         /\ outNeg.tier = out.tier
         /\ Tail(outNeg.text) = Tail(out.text)
         /\ outNeg.scaled = Negate(out.scaled)
         /\ outNeg.text[1] = [out.text[1] EXCEPT !.sign = -@]
         /\ outNeg.text[1].sign = -number.sign

C7_Witness ==
  /\ pc = "both" /\ number = Dec(1, 1234, 3) /\ precision = DefaultPrecision
  /\ s = ""
  /\ out.text = <<[sign |-> 1, digits |-> 123, exp |-> 0, sci |-> FALSE,
                   spec |-> ""], " ", "k">>
  /\ outNeg.text = <<[sign |-> -1, digits |-> 123, exp |-> 0, sci |-> FALSE,
                      spec |-> ""], " ", "k">>

----------------------------------------------------------------------------
(* Claims about createAxes (specification SpecAxes) *)

GridCalled == grid # GridNotCalled

\* The grid of the claim: nCols = min(nAxes, colWrap) columns, the least
\* number of rows that holds nAxes, a flat array whose first nAxes axes are
\* on and whose remaining axes, fewer than nCols, are off.
GridAsClaimed ==
  LET c == IF nAxes < colWrap THEN nAxes ELSE colWrap
      r == CHOOSE k \in 1 .. nAxes : c * k >= nAxes /\ c * (k - 1) < nAxes
  IN  /\ grid.shape = "1d"
      /\ Len(grid.elems) = c * r
      /\ \A i \in 1 .. Len(grid.elems) :
           /\ grid.elems[i].id = i - 1
           /\ grid.elems[i].on = (i <= nAxes)
      /\ c * r - nAxes \in 0 .. c - 1

\* C8: for every nAxes >= 1 and colWrap >= 1 createAxes returns the grid of
\* the claim as a flat array.
C8_FlatArray == GridCalled => GridAsClaimed

\* What holds of the code: the same from two axes on.
GridAsClaimedFromTwo == (GridCalled /\ nAxes >= 2) => GridAsClaimed

----------------------------------------------------------------------------
(* Claims about Curve (specification SpecCurve) *)

\* C9: plot_line with label None (or pos None) draws the line, adds no
\* annotation and ends without raising.
C9_PlotLineNoLabelReturns ==
  (last.call = "plot_line" /\ (last.label = LabelNone \/ last.pos.isNone)) =>
    /\ last.raised = "none"
    /\ ax.texts = last.before.texts
    /\ ax.lines # {}

\* C10: when draw_connecting_hline ends the y-range is the one read at its
\* start, and when draw_connecting_vline ends the x-range is the one read at
\* its start, with or without a label.
C10_LimitsRestored ==
  /\ last.call = "draw_connecting_hline" => ax.ylim = last.before.ylim
  /\ last.call = "draw_connecting_vline" => ax.xlim = last.before.xlim

C10_Witness ==
  /\ last.call = "draw_connecting_hline"
  /\ last.label # LabelNone
  /\ last.drawn.ylim # last.before.ylim
  /\ ax.ylim = last.before.ylim

====
